---- MODULE Spec2Model ----
(***************************************************************************)
(* Model of task1.py: a command-line address book.  Strings are sequences  *)
(* of one-character strings; literal pieces of a printed message are kept  *)
(* as single elements of such a sequence.                                  *)
(***************************************************************************)
EXTENDS Integers, Sequences, FiniteSets, TLC

VARIABLES book, file, now, pc, out, saves, last

vars == <<book, file, now, pc, out, saves, last>>

----------------------------------------------------------------------------
(* Bounds of the model *)

\* phones a record may hold before the model stops adding to it
MaxPhones == 2
\* days the clock may advance past StartDay
MaxDays == 1

----------------------------------------------------------------------------
(* Characters and strings *)

AsciiDigits == {"0", "1", "2", "3", "4", "5", "6", "7", "8", "9"}

\* str.isdigit() is true of every character whose Unicode Numeric_Type is
\* Digit or Decimal; "SUPERSCRIPT TWO" stands for the character U+00B2.
IsDigitChar(c) == c \in AsciiDigits \cup {"SUPERSCRIPT TWO"}

\* str.isdigit(): non-empty and every character a digit
isdigit(s) == Len(s) > 0 /\ \A i \in 1..Len(s) : IsDigitChar(s[i])

DigitVal(c) == CASE c = "0" -> 0 [] c = "1" -> 1 [] c = "2" -> 2 [] c = "3" -> 3
                 [] c = "4" -> 4 [] c = "5" -> 5 [] c = "6" -> 6 [] c = "7" -> 7
                 [] c = "8" -> 8 [] c = "9" -> 9

DigitChar(n) == <<"0", "1", "2", "3", "4", "5", "6", "7", "8", "9">>[n + 1]

\* int() of a string of ASCII digits
RECURSIVE StrToInt(_)
StrToInt(s) == IF Len(s) = 0 THEN 0
               ELSE 10 * StrToInt(SubSeq(s, 1, Len(s) - 1)) + DigitVal(s[Len(s)])

\* sep.join(parts): parts is a sequence of strings, sep a one-element string
RECURSIVE Join(_, _)
Join(parts, sep) == IF Len(parts) = 0 THEN <<>>
                    ELSE IF Len(parts) = 1 THEN parts[1]
                    ELSE parts[1] \o sep \o Join(Tail(parts), sep)

----------------------------------------------------------------------------
(* datetime: the proleptic Gregorian calendar *)

IsLeap(y) == y % 4 = 0 /\ (y % 100 # 0 \/ y % 400 = 0)

DaysInMonth(y, m) == IF m = 2 THEN (IF IsLeap(y) THEN 29 ELSE 28)
                     ELSE IF m \in {4, 6, 9, 11} THEN 30 ELSE 31

DaysBeforeYear(y) == (y - 1) * 365 + (y - 1) \div 4 - (y - 1) \div 100 + (y - 1) \div 400

RECURSIVE DaysBeforeMonth(_, _)
DaysBeforeMonth(y, m) == IF m = 1 THEN 0
                         ELSE DaysBeforeMonth(y, m - 1) + DaysInMonth(y, m - 1)

\* date.toordinal()
ToOrdinal(y, m, d) == DaysBeforeYear(y) + DaysBeforeMonth(y, m) + d

\* date.fromordinal(), for ordinals of the years the model visits
FromOrdinal(n) ==
    LET y == CHOOSE yy \in 2019..2027 : DaysBeforeYear(yy) < n /\ n <= DaysBeforeYear(yy + 1)
        r == n - DaysBeforeYear(y)
        m == CHOOSE mm \in 1..12 :
                 DaysBeforeMonth(y, mm) < r /\ r <= DaysBeforeMonth(y, mm) + DaysInMonth(y, mm)
    IN  [year |-> y, month |-> m, day |-> r - DaysBeforeMonth(y, m)]

\* date.weekday(): Monday is 0, Sunday is 6
weekday(n) == (n + 6) % 7

\* A datetime is a day (ordinal) and a time of day; tod = 0 is midnight.
DateTime(ord, tod) == [ord |-> ord, tod |-> tod]

DtLe(a, b) == a.ord < b.ord \/ (a.ord = b.ord /\ a.tod <= b.tod)

DtGt(a, b) == ~DtLe(a, b)

\* datetime + timedelta(days=k)
PlusDays(a, k) == [a EXCEPT !.ord = a.ord + k]

----------------------------------------------------------------------------
(* datetime.strptime(value, "%d.%m.%Y") and strftime("%d.%m.%Y") *)

IsAsciiDigits(s) == \A i \in 1..Len(s) : s[i] \in AsciiDigits

\* the directive %d: 3[0-1] | [1-2]\d | 0[1-9] | [1-9]
MatchesDay(s) ==
    /\ IsAsciiDigits(s)
    /\ \/ Len(s) = 1 /\ s[1] # "0"
       \/ Len(s) = 2 /\ \/ s[1] = "3" /\ s[2] \in {"0", "1"}
                        \/ s[1] \in {"1", "2"}
                        \/ s[1] = "0" /\ s[2] # "0"

\* the directive %m: 1[0-2] | 0[1-9] | [1-9]
MatchesMonth(s) ==
    /\ IsAsciiDigits(s)
    /\ \/ Len(s) = 1 /\ s[1] # "0"
       \/ Len(s) = 2 /\ \/ s[1] = "1" /\ s[2] \in {"0", "1", "2"}
                        \/ s[1] = "0" /\ s[2] # "0"

\* the directive %Y: \d\d\d\d
MatchesYear(s) == IsAsciiDigits(s) /\ Len(s) = 4

DotPositions(s) == {i \in 1..Len(s) : s[i] = "."}

NoDate == [ok |-> FALSE, year |-> 0, month |-> 0, day |-> 0]

\* The whole string must match day "." month "." year, and the three numbers
\* must make a date (year >= 1, day within the month); anything else raises
\* ValueError, which is ok = FALSE here.
strptime(s) ==
    LET dots == DotPositions(s)
    IN  IF Cardinality(dots) # 2 THEN NoDate
        ELSE LET i  == CHOOSE x \in dots : \A z \in dots : x <= z
                 j  == CHOOSE x \in dots : \A z \in dots : x >= z
                 ds == SubSeq(s, 1, i - 1)
                 ms == SubSeq(s, i + 1, j - 1)
                 ys == SubSeq(s, j + 1, Len(s))
             IN  IF ~(MatchesDay(ds) /\ MatchesMonth(ms) /\ MatchesYear(ys)) THEN NoDate
                 ELSE LET y == StrToInt(ys)
                          m == StrToInt(ms)
                          d == StrToInt(ds)
                      IN  IF y < 1 \/ d > DaysInMonth(y, m) THEN NoDate
                          ELSE [ok |-> TRUE, year |-> y, month |-> m, day |-> d]

TwoDigits(n) == <<DigitChar(n \div 10), DigitChar(n % 10)>>

FourDigits(n) == <<DigitChar(n \div 1000), DigitChar((n \div 100) % 10),
                   DigitChar((n \div 10) % 10), DigitChar(n % 10)>>

\* date.strftime("%d.%m.%Y") of the date with ordinal n
strftime(n) ==
    LET d == FromOrdinal(n)
    IN  TwoDigits(d.day) \o <<".">> \o TwoDigits(d.month) \o <<".">> \o FourDigits(d.year)

----------------------------------------------------------------------------
(* Field validators: the result of a constructor is ok, or the ValueError   *)
(* it raises                                                               *)

\* Phone.__init__
PhoneOk(value) == Len(value) = 10 /\ isdigit(value)

\* Birthday.__init__ without the test of line 41
BirthdayCheck_no_future(value, t) == IF strptime(value).ok THEN "ok" ELSE "format"

\* Birthday.__init__: "format" and "future" are its two ValueErrors
BirthdayCheck(value, t) ==
    LET dt == strptime(value)
    IN  IF ~dt.ok THEN "format"
        ELSE IF DtGt(DateTime(ToOrdinal(dt.year, dt.month, dt.day), 0), t) THEN "future"
        ELSE "ok"

----------------------------------------------------------------------------
(* Record and AddressBook.  None is the empty sequence and a present value *)
(* v is <<v>>; the book is the dict in insertion order.                    *)

None == <<>>

\* Record.__init__
Record(name) == [name |-> name, phones |-> <<>>, birthday |-> None]

IndexOf(b, name) ==
    IF \E i \in 1..Len(b) : b[i].name = name
    THEN CHOOSE i \in 1..Len(b) : b[i].name = name
    ELSE 0

\* AddressBook.find: the record, or None
find(b, name) == IF IndexOf(b, name) = 0 THEN None ELSE <<b[IndexOf(b, name)]>>

\* AddressBook.add_record: self.data[record.name.value] = record
add_record(b, record) ==
    IF IndexOf(b, record.name) = 0 THEN Append(b, record)
    ELSE [b EXCEPT ![IndexOf(b, record.name)] = record]

\* the book with the record of that name replaced (the record object is
\* shared between the dict and the handler that mutates it)
Put(b, record) == [b EXCEPT ![IndexOf(b, record.name)] = record]

\* the outcome of a call: the book it leaves, the exception raised ("" when
\* none) with its message, and the value returned
Return(b, value) == [book |-> b, exc |-> "", err |-> <<>>, ret |-> value]

Raise(b, exc, err) == [book |-> b, exc |-> exc, err |-> err, ret |-> <<>>]

\* delete that ignores a missing name, as self.data.pop(name, None) would
delete_silent(b, name) ==
    IF IndexOf(b, name) # 0
    THEN Return(SubSeq(b, 1, IndexOf(b, name) - 1) \o SubSeq(b, IndexOf(b, name) + 1, Len(b)), <<>>)
    ELSE Return(b, <<>>)

\* AddressBook.delete
delete(b, name) ==
    IF IndexOf(b, name) # 0
    THEN Return(SubSeq(b, 1, IndexOf(b, name) - 1) \o SubSeq(b, IndexOf(b, name) + 1, Len(b)), <<>>)
    ELSE Raise(b, "ValueError", <<"No record.">>)

\* add_phone that appends the raw value, without Phone()
add_phone_unchecked(b, record, phone) ==
    Return(Put(b, [record EXCEPT !.phones = Append(@, phone)]), <<>>)

\* add_phone that puts the new phone first, as self.phones.insert(0, ...) would
add_phone_first(b, record, phone) ==
    IF PhoneOk(phone)
    THEN Return(Put(b, [record EXCEPT !.phones = <<phone>> \o @]), <<>>)
    ELSE Raise(b, "ValueError", <<"Phone number must be 10 digits.">>)

\* Record.add_phone
add_phone(b, record, phone) ==
    IF PhoneOk(phone)
    THEN Return(Put(b, [record EXCEPT !.phones = Append(@, phone)]), <<>>)
    ELSE Raise(b, "ValueError", <<"Phone number must be 10 digits.">>)

\* edit_phone without the return of line 58: every occurrence is replaced
edit_phone_all(b, record, old_phone, new_phone) ==
    IF \A i \in 1..Len(record.phones) : record.phones[i] # old_phone
    THEN Raise(b, "ValueError", <<"Phone number not found.">>)
    ELSE IF PhoneOk(new_phone)
    THEN Return(Put(b, [record EXCEPT !.phones =
                           [i \in 1..Len(@) |-> IF @[i] = old_phone THEN new_phone ELSE @[i]]]), <<>>)
    ELSE Raise(b, "ValueError", <<"Phone number must be 10 digits.">>)

\* Record.edit_phone
edit_phone(b, record, old_phone, new_phone) ==
    LET hits == {i \in 1..Len(record.phones) : record.phones[i] = old_phone}
    IN  IF hits = {} THEN Raise(b, "ValueError", <<"Phone number not found.">>)
        ELSE LET i == CHOOSE x \in hits : \A z \in hits : x <= z
             IN  IF PhoneOk(new_phone)
                 THEN Return(Put(b, [record EXCEPT !.phones[i] = new_phone]), <<>>)
                 ELSE Raise(b, "ValueError", <<"Phone number must be 10 digits.">>)

\* Record.add_birthday
record_add_birthday(b, record, birthday_str, t) ==
    LET c == BirthdayCheck(birthday_str, t)
    IN  IF c = "ok" THEN Return(Put(b, [record EXCEPT !.birthday = <<birthday_str>>]), <<>>)
        ELSE IF c = "format" THEN Raise(b, "ValueError", <<"Invalid date format. Use DD.MM.YYYY">>)
        ELSE Raise(b, "ValueError", <<"Date of birth cannot be in the future">>)

\* Record.__str__
record_str(r) ==
    r.name \o <<": Phones: ">>
           \o (IF Len(r.phones) > 0 THEN Join(r.phones, <<", ">>) ELSE <<"No phones">>)
           \o <<", Birthday: ">>
           \o (IF r.birthday # None THEN r.birthday[1] ELSE <<"Not set">>)

\* AddressBook.__str__
book_str(b) ==
    IF Len(b) = 0 THEN <<"Address book is empty.">>
    ELSE Join([i \in 1..Len(b) |-> record_str(b[i])], <<"\n">>)

\* the test of line 90: today <= birthday_this_year <= today + 7 days
in_window(today, this_year) == DtLe(today, this_year) /\ DtLe(this_year, PlusDays(today, 7))

\* the shift of line 92 one day short: 6 - weekday()
roll_forward_short(ord) == IF weekday(ord) \in {5, 6} THEN ord + (6 - weekday(ord)) ELSE ord

\* lines 91-92: a Saturday or Sunday moves on by 7 - weekday() days
roll_forward(ord) == IF weekday(ord) \in {5, 6} THEN ord + (7 - weekday(ord)) ELSE ord

\* AddressBook.get_upcoming_birthdays, from record i on, with the list built
\* so far: the ValueError of datetime.replace leaves the loop at once
RECURSIVE upcoming_from(_, _, _, _)
upcoming_from(b, i, today, acc) ==
    IF i > Len(b) THEN Return(b, acc)
    ELSE IF b[i].birthday = None THEN upcoming_from(b, i + 1, today, acc)
    ELSE LET dt   == strptime(b[i].birthday[1])
             year == FromOrdinal(today.ord).year
         IN  IF dt.day > DaysInMonth(year, dt.month)
             THEN Raise(b, "ValueError", <<"day is out of range for month">>)
             ELSE LET this_year == DateTime(ToOrdinal(year, dt.month, dt.day), 0)
                  IN  IF in_window(today, this_year)
                      THEN upcoming_from(b, i + 1, today,
                               Append(acc, [name |-> b[i].name,
                                            birthday |-> strftime(roll_forward(this_year.ord))]))
                      ELSE upcoming_from(b, i + 1, today, acc)

get_upcoming_birthdays(b, today) == upcoming_from(b, 1, today, <<>>)

----------------------------------------------------------------------------
(* Command handlers, before the decorator *)

\* add_contact
add_contact_body(args, b) ==
    IF Len(args) < 2 THEN Raise(b, "IndexError", <<>>)
    ELSE LET name   == args[1]
             phone  == args[2]
             b1     == IF find(b, name) = None THEN add_record(b, Record(name)) ELSE b
             r      == add_phone(b1, find(b1, name)[1], phone)
         IN  IF r.exc # "" THEN r
             ELSE Return(r.book, <<"Contact ">> \o name \o <<" added/updated with phone ">>
                                  \o phone \o <<".">>)

\* change_contact
change_contact_body(args, b) ==
    IF Len(args) < 3 THEN Raise(b, "IndexError", <<>>)
    ELSE LET name      == args[1]
             old_phone == args[2]
             new_phone == args[3]
         IN  IF find(b, name) = None THEN Raise(b, "KeyError", <<>>)
             ELSE LET r == edit_phone(b, find(b, name)[1], old_phone, new_phone)
                  IN  IF r.exc # "" THEN r
                      ELSE Return(r.book, <<"Phone number changed for ">> \o name \o <<": ">>
                                           \o old_phone \o <<" -> ">> \o new_phone)

\* show_phone
show_phone_body(args, b) ==
    IF Len(args) < 1 THEN Raise(b, "IndexError", <<>>)
    ELSE LET name == args[1]
         IN  IF find(b, name) = None THEN Raise(b, "KeyError", <<>>)
             ELSE IF Len(find(b, name)[1].phones) = 0
             THEN Return(b, <<"No phone numbers for ">> \o name \o <<".">>)
             ELSE Return(b, name \o <<"'s phones: ">> \o Join(find(b, name)[1].phones, <<", ">>))

\* add_birthday
add_birthday_body(args, b, t) ==
    IF Len(args) < 2 THEN Raise(b, "IndexError", <<>>)
    ELSE LET name     == args[1]
             birthday == args[2]
         IN  IF find(b, name) = None THEN Raise(b, "KeyError", <<>>)
             ELSE LET r == record_add_birthday(b, find(b, name)[1], birthday, t)
                  IN  IF r.exc # "" THEN r
                      ELSE Return(r.book, <<"Birthday added for ">> \o name \o <<".">>)

\* show_birthday
show_birthday_body(args, b) ==
    IF Len(args) < 1 THEN Raise(b, "IndexError", <<>>)
    ELSE LET name == args[1]
         IN  IF find(b, name) = None THEN Raise(b, "KeyError", <<>>)
             ELSE IF find(b, name)[1].birthday = None
             THEN Return(b, <<"Birthday not set for ">> \o name \o <<".">>)
             ELSE Return(b, name \o <<"'s birthday: ">> \o find(b, name)[1].birthday[1])

\* birthdays: not decorated, so what get_upcoming_birthdays raises leaves it
birthdays(b, t) ==
    LET r == get_upcoming_birthdays(b, t)
    IN  IF r.exc # "" THEN r
        ELSE IF Len(r.ret) = 0 THEN Return(b, <<"No upcoming birthdays in the next 7 days.">>)
        ELSE Return(b, Join([i \in 1..Len(r.ret) |->
                                r.ret[i].name \o <<": ">> \o r.ret[i].birthday], <<"\n">>))

\* input_error: the decorator turns every exception into a returned message
input_error(r) ==
    IF r.exc = "" THEN r
    ELSE IF r.exc = "IndexError" THEN Return(r.book, <<"Not enough arguments provided.">>)
    ELSE IF r.exc = "ValueError" THEN Return(r.book, <<"Value error: ">> \o r.err)
    ELSE IF r.exc = "KeyError" THEN Return(r.book, <<"Contact not found.">>)
    ELSE Return(r.book, <<"Error: ">> \o r.err)

add_contact(args, b) == input_error(add_contact_body(args, b))

change_contact(args, b) == input_error(change_contact_body(args, b))

show_phone(args, b) == input_error(show_phone_body(args, b))

add_birthday(args, b, t) == input_error(add_birthday_body(args, b, t))

show_birthday(args, b) == input_error(show_birthday_body(args, b))

\* the messages with which a handler reports an error
IsErrorMessage(m) ==
    Len(m) > 0 /\ m[1] \in {"Not enough arguments provided.", "Value error: ",
                            "Contact not found.", "Error: "}

----------------------------------------------------------------------------
(* Persistence *)

\* pickle.dump: the dict's items in order, each record as its attributes
pickle_dump(b) == [i \in 1..Len(b) |-> <<b[i].name, <<b[i].name, b[i].phones, b[i].birthday>>>>]

\* pickle.load: the records rebuilt and set in the dict under their keys
RECURSIVE pickle_load_from(_, _, _)
pickle_load_from(blob, i, acc) ==
    IF i > Len(blob) THEN acc
    ELSE LET key   == blob[i][1]
             attrs == blob[i][2]
             rec   == [name |-> attrs[1], phones |-> attrs[2], birthday |-> attrs[3]]
         IN  pickle_load_from(blob, i + 1,
                 IF IndexOf(acc, key) = 0 THEN Append(acc, rec)
                 ELSE [acc EXCEPT ![IndexOf(acc, key)] = rec])

pickle_load(blob) == pickle_load_from(blob, 1, <<>>)

\* load_data: FileNotFoundError gives an empty AddressBook
load_data(f) == IF f = None THEN <<>> ELSE pickle_load(f[1])

\* save_data
save_data(b) == <<pickle_dump(b)>>

----------------------------------------------------------------------------
(* Inputs *)

NameA == <<"a">>

NameB == <<"b">>

Names == {NameA, NameB}

\* ten ASCII digits
P1 == <<"0", "1", "2", "3", "4", "5", "6", "7", "8", "9">>

\* ten characters of which str.isdigit() is true, the last one not ASCII
PSup == <<"0", "1", "2", "3", "4", "5", "6", "7", "8", "SUPERSCRIPT TWO">>

\* too short
PShort == <<"1", "2", "3">>

\* ten characters, one a letter
PAlpha == <<"0", "1", "2", "3", "4", "5", "6", "7", "8", "x">>

\* eleven digits
PLong == <<"0", "1", "2", "3", "4", "5", "6", "7", "8", "9", "0">>

\* the day the model starts on: Wednesday 26.02.2025
StartDay == ToOrdinal(2025, 2, 26)

B_26_02_2025 == <<"2", "6", ".", "0", "2", ".", "2", "0", "2", "5">>

B_27_02_2025 == <<"2", "7", ".", "0", "2", ".", "2", "0", "2", "5">>

B_25_02_2024 == <<"2", "5", ".", "0", "2", ".", "2", "0", "2", "4">>

B_29_02_2024 == <<"2", "9", ".", "0", "2", ".", "2", "0", "2", "4">>

\* 01.03.2025 is a Saturday, 02.03.2025 a Sunday
B_01_03_2024 == <<"0", "1", ".", "0", "3", ".", "2", "0", "2", "4">>

B_02_03_2024 == <<"0", "2", ".", "0", "3", ".", "2", "0", "2", "4">>

B_05_03_2020 == <<"0", "5", ".", "0", "3", ".", "2", "0", "2", "0">>

B_06_03_2020 == <<"0", "6", ".", "0", "3", ".", "2", "0", "2", "0">>

\* accepted by strptime although day and month have one digit
B_4_3_2024 == <<"4", ".", "3", ".", "2", "0", "2", "4">>

\* not dates of the format
B_Iso == <<"2", "0", "2", "4", "-", "0", "3", "-", "0", "1">>

B_31_02_2024 == <<"3", "1", ".", "0", "2", ".", "2", "0", "2", "4">>

B_01_03_24 == <<"0", "1", ".", "0", "3", ".", "2", "4">>

B_00_03_2024 == <<"0", "0", ".", "0", "3", ".", "2", "0", "2", "4">>

B_01_13_2024 == <<"0", "1", ".", "1", "3", ".", "2", "0", "2", "4">>

B_01_03_0000 == <<"0", "1", ".", "0", "3", ".", "0", "0", "0", "0">>

\* the argument lists tried: none or a name alone,
Args1(names) == {<<>>} \cup {<<n>> : n \in names}

\* ... or a name with one value,
Args2(names, values) == Args1(names) \cup {<<n, v>> : n \in names, v \in values}

\* ... or a name with two phone values
Args3(names, values, phones) ==
    Args2(names, values) \cup {<<n, p, q>> : n \in names, p \in phones, q \in phones}

\* the verbs typed, and str.lower() of each
VerbInputs == {"close", "exit", "EXIT", "hello", "add", "Add", "change", "phone",
               "show-birthday", "all", "add-birthday", "birthdays", "Birthdays", "delete"}

lower(v) == CASE v = "EXIT" -> "exit" [] v = "Add" -> "add" [] v = "Birthdays" -> "birthdays"
              [] OTHER -> v

KnownVerbs == {"close", "exit", "hello", "add", "change", "phone", "show-birthday", "all",
               "add-birthday", "birthdays"}

----------------------------------------------------------------------------
(* The command loop of main() *)

Welcome == <<"Welcome to the assistant bot!">>

\* the step taken last: the verb dispatched on and parts[1:]
Did(op, args) == [op |-> op, args |-> args]

\* main() up to the first prompt, with no file on disk
Init ==
    /\ book = load_data(None)
    /\ file = None
    /\ now = DateTime(StartDay, 1)
    /\ pc = "running"
    /\ out = Welcome
    /\ saves = 0
    /\ last = Did("start", <<>>)

\* command = parts[0].lower()
Commands == {lower(v) : v \in VerbInputs}

Typed(verb) == pc = "running" /\ verb \in Commands

\* the model stops adding phones to a record that holds MaxPhones
PhonesBounded(b) == \A i \in 1..Len(b) : Len(b[i].phones) <= MaxPhones

\* print(handler(args, book))
Handle(r) ==
    /\ book' = r.book
    /\ out' = r.ret
    /\ UNCHANGED <<file, now, pc, saves>>

Hello ==
    /\ last' = Did("hello", <<>>)
    /\ Typed("hello")
    /\ out' = <<"How can I help you?">>
    /\ UNCHANGED <<book, file, now, pc, saves>>

Add(args) ==
    /\ last' = Did("add", args)
    /\ Typed("add")
    /\ PhonesBounded(add_contact(args, book).book)
    /\ Handle(add_contact(args, book))

Change(args) ==
    /\ last' = Did("change", args)
    /\ Typed("change")
    /\ Handle(change_contact(args, book))

Phone(args) ==
    /\ last' = Did("phone", args)
    /\ Typed("phone")
    /\ Handle(show_phone(args, book))

ShowBirthday(args) ==
    /\ last' = Did("show-birthday", args)
    /\ Typed("show-birthday")
    /\ Handle(show_birthday(args, book))

All ==
    /\ last' = Did("all", <<>>)
    /\ Typed("all")
    /\ out' = book_str(book)
    /\ UNCHANGED <<book, file, now, pc, saves>>

AddBirthday(args) ==
    /\ last' = Did("add-birthday", args)
    /\ Typed("add-birthday")
    /\ Handle(add_birthday(args, book, now))

\* print(birthdays(book)): an exception here is caught by nothing and ends
\* the process with a traceback
Birthdays ==
    /\ last' = Did("birthdays", <<>>)
    /\ Typed("birthdays")
    /\ LET r == birthdays(book, now)
       IN  IF r.exc = "" THEN Handle(r)
           ELSE /\ pc' = "crashed"
                /\ out' = <<>>
                /\ UNCHANGED <<book, file, now, saves>>

Invalid ==
    /\ last' = Did("invalid", <<>>)
    /\ pc = "running"
    /\ Commands \ KnownVerbs # {}
    /\ out' = <<"Invalid command.">>
    /\ UNCHANGED <<book, file, now, pc, saves>>

\* an empty line: continue, nothing is printed
EmptyLine ==
    /\ last' = Did("", <<>>)
    /\ pc = "running"
    /\ out' = <<>>
    /\ UNCHANGED <<book, file, now, pc, saves>>

\* close or exit: save_data(book), "Good bye!", break
Close ==
    /\ last' = Did("close", <<>>)
    /\ pc = "running"
    /\ Commands \cap {"close", "exit"} # {}
    /\ file' = save_data(book)
    /\ saves' = saves + 1
    /\ out' = <<"Good bye!">>
    /\ pc' = "exited"
    /\ UNCHANGED <<book, now>>

\* the next run of the program: book = load_data()
Start ==
    /\ last' = Did("start", <<>>)
    /\ pc \in {"exited", "crashed"}
    /\ book' = load_data(file)
    /\ pc' = "running"
    /\ saves' = 0
    /\ out' = Welcome
    /\ UNCHANGED <<file, now>>

\* the clock: later the same day, or midnight of the next day
Tick ==
    /\ last' = Did("tick", <<>>)
    /\ IF now.tod = 0 THEN now' = DateTime(now.ord, 1)
       ELSE now.ord < StartDay + MaxDays /\ now' = DateTime(now.ord + 1, 0)
    /\ UNCHANGED <<book, file, pc, out, saves>>

\* AddressBook.delete(name), called on the book of a running program
Delete(name) ==
    /\ last' = Did("delete", <<name>>)
    /\ pc = "running"
    /\ book' = delete(book, name).book
    /\ out' = IF delete(book, name).exc = "" THEN <<>>
              ELSE <<delete(book, name).exc, ": ">> \o delete(book, name).err
    /\ UNCHANGED <<file, now, pc, saves>>

----------------------------------------------------------------------------
(* The program: runs of main() one after the other, sharing the file *)

MainPhones == {P1}

MainValues == {P1, B_29_02_2024}

Next ==
    \/ Hello
    \/ \E args \in Args2(Names, MainValues) : Add(args)
    \/ \E args \in Args3(Names, MainValues, MainPhones) : Change(args)
    \/ \E args \in Args1(Names) : Phone(args)
    \/ \E args \in Args1(Names) : ShowBirthday(args)
    \/ All
    \/ \E args \in Args2(Names, MainValues) : AddBirthday(args)
    \/ Birthdays
    \/ Invalid
    \/ EmptyLine
    \/ Close
    \/ Start

Spec == Init /\ [][Next]_vars

----------------------------------------------------------------------------
(* One run of the command loop, from the empty book, with more phones *)

SessionPhones == {P1, PSup, PShort}

\* B_Iso has ten characters, not all of them digits
SessionValues == SessionPhones \cup {PAlpha, PLong, B_Iso, B_27_02_2025}

NextSession ==
    \/ Hello
    \/ \E args \in Args2(Names, SessionValues) : Add(args)
    \/ \E args \in Args3(Names, SessionValues, SessionPhones) : Change(args)
    \/ \E args \in Args1(Names) : Phone(args)
    \/ \E args \in Args1(Names) : ShowBirthday(args)
    \/ All
    \/ \E args \in Args2(Names, SessionValues) : AddBirthday(args)
    \/ Birthdays
    \/ Invalid
    \/ EmptyLine

SpecSession == Init /\ [][NextSession]_vars

----------------------------------------------------------------------------
(* The AddressBook operations on the books and at the times a program can  *)
(* have: every phone valid, every birthday accepted at a time not after now *)

ApiBirthdays == {B_26_02_2025, B_27_02_2025, B_25_02_2024, B_29_02_2024, B_01_03_2024,
                 B_02_03_2024, B_05_03_2020, B_06_03_2020, B_4_3_2024, B_Iso,
                 B_31_02_2024, B_01_03_24, B_00_03_2024, B_01_13_2024, B_01_03_0000}

ApiTimes == {DateTime(StartDay + k, t) : k \in 0..MaxDays, t \in 0..1}

\* what a record of that name with those phones can hold at time t
ApiRecords(name, phones, t) ==
    {[name |-> name, phones |-> phones, birthday |-> bd] :
        bd \in {None} \cup {<<v>> : v \in {x \in ApiBirthdays : BirthdayCheck(x, t) = "ok"}}}

ApiBooks(t) ==
    {<<>>} \cup {<<r>> : r \in ApiRecords(NameA, <<P1>>, t)}
           \cup {<<r, q>> : r \in ApiRecords(NameA, <<P1>>, t), q \in ApiRecords(NameB, <<>>, t)}

InitApi ==
    /\ now \in ApiTimes
    /\ book \in ApiBooks(now)
    /\ file = None
    /\ pc = "running"
    /\ out = <<>>
    /\ saves = 0
    /\ last = Did("start", <<>>)

NextApi ==
    \/ \E args \in Args2(Names, ApiBirthdays) : AddBirthday(args)
    \/ \E args \in Args1(Names) : ShowBirthday(args)
    \/ \E args \in Args1(Names) : Phone(args)
    \/ Birthdays
    \/ \E name \in Names : Delete(name)
    \/ Tick

SpecApi == InitApi /\ [][NextApi]_vars

----------------------------------------------------------------------------
(* Properties *)

\* the pieces of s between the occurrences of the element sep
RECURSIVE Split(_, _)
Split(s, sep) ==
    IF \A i \in 1..Len(s) : s[i] # sep THEN <<s>>
    ELSE LET i == CHOOSE x \in 1..Len(s) : s[x] = sep /\ \A z \in 1..(x - 1) : s[z] # sep
         IN  <<SubSeq(s, 1, i - 1)>> \o Split(SubSeq(s, i + 1, Len(s)), sep)

Range(f) == {f[i] : i \in DOMAIN f}

AllPhones(b) == UNION {Range(b[i].phones) : i \in 1..Len(b)}

TenDigits(p) == Len(p) = 10 /\ \A i \in 1..10 : IsDigitChar(p[i])

PhonesOf(b, n) == IF find(b, n) = None THEN <<>> ELSE find(b, n)[1].phones

C2_NeverCrashes == pc # "crashed"

\* the lines of the output of birthdays, as <<name, date>> pairs
EmittedLines(o) ==
    IF o = <<"No upcoming birthdays in the next 7 days.">> THEN {}
    ELSE {Split(l, ": ") : l \in Range(Split(o, "\n"))}

HasBirthday(b, n) == find(b, n) # None /\ find(b, n)[1].birthday # None

\* the birthday of n projected onto the year of the day t
Projected(b, n, t) ==
    LET dt == strptime(find(b, n)[1].birthday[1])
    IN  ToOrdinal(FromOrdinal(t).year, dt.month, dt.day)

AfterBirthdays == last.op = "birthdays" /\ pc = "running"

\* C3: birthdays emits a record exactly when it has a birthday whose
\* projection onto the current year is one of the days today .. today + 7.
C3_WindowIsTodayToSeven ==
    AfterBirthdays =>
        \A n \in Names :
            (\E e \in EmittedLines(out) : e[1] = n)
                <=> /\ HasBirthday(book, n)
                    /\ Projected(book, n, now.ord) \in now.ord..(now.ord + 7)

\* C4: every emitted date is the projected birthday itself on Monday to
\* Friday, two days later for a Saturday and one day later for a Sunday, so
\* it is never a Saturday or a Sunday.
C4_WeekendRollsToMonday ==
    AfterBirthdays =>
        \A e \in EmittedLines(out) :
            LET proj == Projected(book, e[1], now.ord)
                d    == strptime(e[2])
                em   == ToOrdinal(d.year, d.month, d.day)
            IN  /\ d.ok
                /\ weekday(proj) \in 0..4 => em = proj
                /\ weekday(proj) = 5 => em = proj + 2
                /\ weekday(proj) = 6 => em = proj + 1
                /\ weekday(em) \notin {5, 6}

\* birthdays has listed a Saturday birthday and a Sunday birthday
C4_Witness ==
    /\ AfterBirthdays
    /\ HasBirthday(book, NameA) /\ find(book, NameA)[1].birthday = <<B_01_03_2024>>
    /\ HasBirthday(book, NameB) /\ find(book, NameB)[1].birthday = <<B_02_03_2024>>
    /\ Cardinality(EmittedLines(out)) = 2

\* a value is a date of the format dated on or before the day of t
DatedNotAfter(v, t) ==
    /\ strptime(v).ok
    /\ ToOrdinal(strptime(v).year, strptime(v).month, strptime(v).day) <= t.ord

AllBirthdays(b) == {b[i].birthday[1] : i \in {j \in 1..Len(b) : b[j].birthday # None}}

\* C5: add-birthday on an existing record stores the value unchanged when it
\* is a date of the format not after now, and otherwise answers with a value
\* error and leaves the book as it was; every stored birthday is a date not
\* after now.
C5_BirthdayValidation ==
    /\ [](\A v \in AllBirthdays(book) : DatedNotAfter(v, now))
    /\ [][(last'.op = "add-birthday" /\ Len(last'.args) >= 2 /\ find(book, last'.args[1]) # None)
            => LET n == last'.args[1]
                   v == last'.args[2]
               IN  IF DatedNotAfter(v, now)
                   THEN /\ find(book', n)[1] = [find(book, n)[1] EXCEPT !.birthday = <<v>>]
                        /\ out' = <<"Birthday added for ">> \o n \o <<".">>
                   ELSE /\ book' = book
                        /\ out'[1] = "Value error: "]_vars

\* today's date has just been accepted as a birthday, later than midnight
C5_Witness ==
    /\ last = Did("add-birthday", <<NameA, B_26_02_2025>>)
    /\ now = DateTime(StartDay, 1)
    /\ find(book, NameA) # None
    /\ find(book, NameA)[1].birthday = <<B_26_02_2025>>
    /\ out = <<"Birthday added for ">> \o NameA \o <<".">>

\* C6: the first run starts with an empty book; the file is written by
\* close/exit alone, once in every run; and a run starts with the book the
\* run before it ended with.
C6_RunStartsWhereLastEnded ==
    /\ [](file = None /\ last.op = "start" => book = <<>>)
    /\ [][file' # file => last'.op = "close"]_vars
    /\ [](pc # "running" => saves = 1)
    /\ [][(pc # "running" /\ pc' = "running") => book' = book]_vars

\* C7: delete of a name that is no key fails with "No record." and leaves
\* the book as it was; delete of a key removes that record alone, and the
\* lookups of the name then find nothing.
C7_Delete ==
    [][last'.op = "delete"
        => LET n == last'.args[1]
           IN  IF find(book, n) = None
               THEN /\ book' = book
                    /\ out' = <<"ValueError", ": ", "No record.">>
               ELSE /\ find(book', n) = None
                    /\ Len(book') = Len(book) - 1
                    /\ \A m \in Names \ {n} : find(book', m) = find(book, m)
                    /\ out' = <<>>
                    /\ show_phone(<<n>>, book').ret = <<"Contact not found.">>
                    /\ show_birthday(<<n>>, book').ret = <<"Contact not found.">>
                    /\ change_contact(<<n, P1, P1>>, book').ret = <<"Contact not found.">>
                    /\ add_birthday(<<n, B_25_02_2024>>, book', now').ret
                           = <<"Contact not found.">>]_vars

\* a was deleted from a book that held a and b, and phone a has been answered
C7_Witness ==
    /\ last = Did("phone", <<NameA>>)
    /\ out = <<"Contact not found.">>
    /\ Len(book) = 1
    /\ find(book, NameB) # None

\* C8: add with a valid phone appends it to the record's phones (a new
\* record's being empty), keeps duplicates, changes no other record, and
\* phone then reports the phones in order, unaltered.
C8_AddThenReadBack ==
    [][(last'.op = "add" /\ Len(last'.args) >= 2 /\ TenDigits(last'.args[2]))
        => LET n == last'.args[1]
               p == last'.args[2]
           IN  /\ find(book', n) # None
               /\ PhonesOf(book', n) = Append(PhonesOf(book, n), p)
               /\ \A m \in Names \ {n} : find(book', m) = find(book, m)
               /\ LET shown == show_phone(<<n>>, book').ret
                  IN  /\ SubSeq(shown, 1, Len(n) + 1) = n \o <<"'s phones: ">>
                      /\ Split(SubSeq(shown, Len(n) + 2, Len(shown)), ", ")
                             = Append(PhonesOf(book, n), p)]_vars

\* a phone a record already held was added to it again, next to another record
C8_Witness ==
    /\ last = Did("add", <<NameA, PSup>>)
    /\ PhonesOf(book, NameA) = <<PSup, PSup>>
    /\ PhonesOf(book, NameB) = <<P1>>

HandlerOps == {"add", "change", "phone", "show-birthday", "add-birthday"}

\* C9: a handler that answers with an error message leaves the book as it
\* was.
C9_ErrorLeavesBookUnchanged ==
    [][(last'.op \in HandlerOps /\ IsErrorMessage(out')) => book' = book]_vars

\* C10: change on an existing record puts new in the place of the first
\* occurrence of old and touches nothing else; without an occurrence of old
\* it answers "Phone number not found." and stores nothing; an invalid new
\* is not stored.
C10_ChangeFirstOccurrence ==
    [][(last'.op = "change" /\ Len(last'.args) >= 3 /\ find(book, last'.args[1]) # None)
        => LET n    == last'.args[1]
               old  == last'.args[2]
               new  == last'.args[3]
               ph   == PhonesOf(book, n)
               hits == {i \in 1..Len(ph) : ph[i] = old}
           IN  /\ \A m \in Names \ {n} : find(book', m) = find(book, m)
               /\ Len(book') = Len(book)
               /\ IF hits = {}
                  THEN /\ book' = book
                       /\ out' = <<"Value error: ", "Phone number not found.">>
                  ELSE IF ~TenDigits(new) THEN book' = book
                  ELSE LET first == CHOOSE i \in hits : \A j \in hits : i <= j
                       IN  /\ Len(PhonesOf(book', n)) = Len(ph)
                           /\ PhonesOf(book', n)[first] = new
                           /\ \A i \in 1..Len(ph) : i # first => PhonesOf(book', n)[i] = ph[i]]_vars

\* the first of two equal phones was changed and the second one kept
C10_Witness ==
    /\ last = Did("change", <<NameA, P1, PSup>>)
    /\ PhonesOf(book, NameA) = <<PSup, P1>>
    /\ find(book, NameB) # None

====
